---- MODULE Spec2Model ----
(***************************************************************************)
(* Model of mitmproxy's proxy2 connection core:                            *)
(*   - proxy2/context.py : ConnectionState, Connection, Client, Server,    *)
(*                         Context                                         *)
(*   - addons/proxyserver.py : AsyncReply, ProxyConnectionHandler,         *)
(*                         Proxyserver                                     *)
(* Objects live in small heaps indexed by integers, so that sharing of a   *)
(* reference and copying of a value are different things in the model.     *)
(***************************************************************************)
EXTENDS Integers, Sequences, FiniteSets, TLC

(***************************************************************************)
(* Bounds of the model.                                                    *)
(***************************************************************************)
MaxCtx == 2
MaxLayers == 1
MaxTasks == 3
MaxRefresh == 4

(***************************************************************************)
(* Program constants: the values of the ConnectionState flags.             *)
(***************************************************************************)
CLOSED == 0
CAN_READ == 1
CAN_WRITE == 2

VARIABLES
    \* ---- context.py: heap of Connection objects
    connKind,       \* object id -> "none" | "Client" | "Server"
    connState,      \* object id -> ConnectionState value (0..3)
    connTls,        \* object id -> tls_established
    lastSet,        \* object id -> <<>> or <<val, state before>> of the last
                    \*              assignment to .connected (history)
    \* ---- context.py: heap of Context objects and of layer lists
    ctxParent,      \* ctx id -> -1 (not constructed) | 0 (root) | parent ctx
    ctxClient,      \* ctx id -> object id of .client
    ctxServer,      \* ctx id -> object id of .server
    ctxLayers,      \* ctx id -> list id of .layers
    lists,          \* list id -> sequence of layer ids
    lastOp,         \* <<kind, ctx>> of the last operation on a Context (history)
    \* ---- proxyserver.py: hook dispatches (ProxyConnectionHandler.handle_hook)
    hpc,            \* dispatch -> where its handle_hook stands
    reply,          \* dispatch -> data.reply of its payload (0: unset / None)
    done,           \* reply -> AsyncReply.done is set
    committed,      \* reply -> the Reply is committed
    commitResult,   \* reply -> "none" | "ok" | "raised": how commit() ended
    lateCommit,     \* reply -> commit() ran with the loop closed (history)
    ready,          \* the event loop's queue of scheduled callbacks
    loopClosed,     \* the event loop is closed
    \* ---- the handler's idle-timeout watchdog, per connection
    blocker,        \* connection -> number of open disarm scopes
    expired,        \* connection -> the idle window has elapsed
    fired,          \* connection -> the watchdog has fired
    \* ---- proxyserver.py: accepted connections, payloads, log records
    handler,        \* connection -> where its handle_connection task stands
    error,          \* dispatch -> the error attribute of its payload
    logs,           \* connection -> log tasks created and not yet run
    \* ---- proxyserver.py: Proxyserver and the options it reads
    is_running,     \* Proxyserver.is_running
    server,         \* Proxyserver.server: 0 (None) or the id of a listening server
    optServer,      \* options.server, the enable flag
    optHost,        \* options.listen_host
    optPort,        \* options.listen_port
    rpc,            \* refresh_server task -> where it stands
    numCreated,     \* number of refresh_server tasks created so far
    lockHolder,     \* Proxyserver._lock: 0 (free) or the task holding it
    lockWaiters,    \* Proxyserver._lock: tasks waiting, in order of arrival
    reqAddr,        \* task -> <<host, port>> it passed to start_server
    sockOpen,       \* task -> the listening socket it opened is open
    sockAddr,       \* task -> <<host, port>> its socket was bound to
    lastUpdated,    \* argument of the last call of configure (history)
    excAt           \* refresh_server task -> who holds the exception it ended with

connVars == <<connKind, connState, connTls, lastSet>>
ctxVars == <<ctxParent, ctxClient, ctxServer, ctxLayers, lists, lastOp>>
replyVars == <<done, committed, commitResult, lateCommit, ready>>
wdVars == <<blocker, expired, fired>>
sideVars == <<error, logs>>
hookVars == <<hpc, reply, replyVars, loopClosed, wdVars, handler, sideVars>>
optVars == <<optServer, optHost, optPort>>
lockVars == <<lockHolder, lockWaiters>>
sockVars == <<sockOpen, sockAddr>>
cfgHist == <<lastUpdated>>
lsnVars == <<is_running, server, optVars, rpc, numCreated, lockVars, reqAddr,
             sockVars, cfgHist, excAt>>
vars == <<connVars, ctxVars, hookVars, lsnVars>>

Obj == 1..(MaxCtx + 1)
CtxId == 1..MaxCtx
LayerIds == {1, 2}

(***************************************************************************)
(* ConnectionState(Flag): a two-bit flag set.                              *)
(***************************************************************************)
HasFlag(s, f) == (s \div f) % 2 = 1
FlagOr(a, b) ==
    (IF HasFlag(a, CAN_READ) \/ HasFlag(b, CAN_READ) THEN CAN_READ ELSE 0)
  + (IF HasFlag(a, CAN_WRITE) \/ HasFlag(b, CAN_WRITE) THEN CAN_WRITE ELSE 0)
FlagClear(s, f) == IF HasFlag(s, f) THEN s - f ELSE s
OPEN == FlagOr(CAN_READ, CAN_WRITE)
ConnectionState == {CLOSED, CAN_READ, CAN_WRITE, OPEN}

(***************************************************************************)
(* Connection.connected (getter) and its setter.                           *)
(***************************************************************************)
connected_truthy(s) == s # CLOSED
connected(s) == s = OPEN

connected_setter(val) == IF val THEN OPEN ELSE CLOSED

\* Client.__init__ / Server.__init__: the state a fresh object starts in.
Client_init == OPEN
Server_init == CLOSED

Live(o) == connKind[o] # "none"

\* conn.connected = val
SetConnected(o, val) ==
    /\ Live(o)
    /\ connState' = [connState EXCEPT ![o] = connected_setter(val)]
    /\ UNCHANGED <<connKind, connTls>>

\* conn.state &= ~flag : one direction of the stream is shut down
ClearFlag(o, f) ==
    /\ Live(o)
    /\ HasFlag(connState[o], f)
    /\ connState' = [connState EXCEPT ![o] = FlagClear(@, f)]
    /\ UNCHANGED <<connKind, connTls>>

\* conn.tls_established = val
SetTls(o, val) ==
    /\ Live(o)
    /\ connTls[o] # val
    /\ connTls' = [connTls EXCEPT ![o] = val]
    /\ UNCHANGED <<connKind, connState>>

(***************************************************************************)
(* Hook dispatches.  Dispatch t is one call of handle_hook; the AsyncReply *)
(* it constructs is reply t.  Dispatches 1 and 2 belong to connection 1,   *)
(* so hooks of one connection overlap; the others to connection 2.         *)
(***************************************************************************)
Task == 1..MaxTasks
Conn == {1, 2}
taskConn(t) == IF t <= 2 THEN 1 ELSE 2
InFlightPc == {"lifecycle", "waiting"}
ExitPc == {"returned", "raised", "rejected", "cancelled"}
InFlight(c) == {t \in Task : taskConn(t) = c /\ hpc[t] \in InFlightPc}

HookInitVars(h) ==
    /\ hpc = [t \in Task |-> "idle"]
    /\ reply = [t \in Task |-> 0]
    /\ done = [t \in Task |-> FALSE]
    /\ committed = [t \in Task |-> FALSE]
    /\ commitResult = [t \in Task |-> "none"]
    /\ lateCommit = [t \in Task |-> FALSE]
    /\ ready = <<>>
    /\ loopClosed = FALSE
    /\ blocker = [c \in Conn |-> 0]
    /\ expired = [c \in Conn |-> FALSE]
    /\ fired = [c \in Conn |-> FALSE]
    /\ handler = [c \in Conn |-> h]
    /\ error = [t \in Task |-> "none"]
    /\ logs = [c \in Conn |-> 0]

(***************************************************************************)
(* Proxyserver.__init__: no server, not running, lock free.  The options   *)
(* are at their first values.                                              *)
(***************************************************************************)
RTask == 1..MaxRefresh
Hosts == {1, 2}
Ports == {1, 2, 3}
NoAddr == <<0, 0>>

LsnInitVars(flag) ==
    /\ is_running = FALSE
    /\ server = 0
    /\ optServer = flag
    /\ optHost = 1
    /\ optPort = 1
    /\ rpc = [t \in RTask |-> "none"]
    /\ numCreated = 0
    /\ lockHolder = 0
    /\ lockWaiters = <<>>
    /\ reqAddr = [t \in RTask |-> NoAddr]
    /\ sockOpen = [t \in RTask |-> FALSE]
    /\ sockAddr = [t \in RTask |-> NoAddr]
    /\ lastUpdated = {}
    /\ excAt = [t \in RTask |-> "none"]

CtxInitVars ==
    /\ ctxParent = [x \in CtxId |-> -1]
    /\ ctxClient = [x \in CtxId |-> 0]
    /\ ctxServer = [x \in CtxId |-> 0]
    /\ ctxLayers = [x \in CtxId |-> 0]
    /\ lists = [l \in CtxId |-> <<>>]
    /\ lastOp = <<"init", 0>>

\* One Client and one Server, as constructed.
InitConn ==
    /\ connKind = [o \in Obj |-> IF o = 1 THEN "Client"
                                 ELSE IF o = 2 THEN "Server" ELSE "none"]
    /\ connState = [o \in Obj |-> IF o = 1 THEN Client_init ELSE Server_init]
    /\ connTls = [o \in Obj |-> FALSE]
    /\ lastSet = [o \in Obj |-> <<>>]
    /\ CtxInitVars
    /\ HookInitVars("none")
    /\ LsnInitVars(TRUE)

\* The three operations on one Connection, with the history of the setter.
ConnSetConnected(o, val) ==
    /\ SetConnected(o, val)
    /\ lastSet' = [lastSet EXCEPT ![o] = <<val, connState[o]>>]
    /\ UNCHANGED <<ctxVars, hookVars, lsnVars>>

ConnClearFlag(o, f) ==
    /\ ClearFlag(o, f)
    /\ lastSet' = [lastSet EXCEPT ![o] = <<>>]
    /\ UNCHANGED <<ctxVars, hookVars, lsnVars>>

ConnSetTls(o, val) ==
    /\ SetTls(o, val)
    /\ UNCHANGED <<lastSet, ctxVars, hookVars, lsnVars>>

NextConn ==
    \/ \E o \in Obj, val \in BOOLEAN : ConnSetConnected(o, val)
    \/ \E o \in Obj, f \in {CAN_READ, CAN_WRITE} : ConnClearFlag(o, f)
    \/ \E o \in Obj, val \in BOOLEAN : ConnSetTls(o, val)

SpecConn == InitConn /\ [][NextConn]_vars

(***************************************************************************)
(* Context.__init__ and Context.fork.  A Context holds references: to its  *)
(* Client, to its Server and to its list of layers.  Context y owns list y.*)
(* __init__ constructs a new Server(None), object srv, and a new empty     *)
(* list; fork then rebinds .server and .layers of the new Context.         *)
(***************************************************************************)
Layers(x) == lists[ctxLayers[x]]
CtxLive(x) == ctxParent[x] # -1

Context_init(y, client, srv, parent) ==
    /\ connKind' = [connKind EXCEPT ![srv] = "Server"]
    /\ connState' = [connState EXCEPT ![srv] = Server_init]
    /\ ctxParent' = [ctxParent EXCEPT ![y] = parent]
    /\ ctxClient' = [ctxClient EXCEPT ![y] = client]

fork_alias_layers(p, y, srv) ==
    /\ CtxLive(p) /\ ~CtxLive(y) /\ ~Live(srv)
    /\ Context_init(y, ctxClient[p], srv, p)
    /\ ctxServer' = [ctxServer EXCEPT ![y] = ctxServer[p]]
    /\ ctxLayers' = [ctxLayers EXCEPT ![y] = ctxLayers[p]]
    /\ lists' = lists
    /\ lastOp' = <<"fork", y>>
    /\ UNCHANGED <<connTls, lastSet, hookVars, lsnVars>>

fork(p, y, srv) ==
    /\ CtxLive(p) /\ ~CtxLive(y) /\ ~Live(srv)
    /\ Context_init(y, ctxClient[p], srv, p)
    /\ ctxServer' = [ctxServer EXCEPT ![y] = ctxServer[p]]   \* ret.server = self.server
    /\ ctxLayers' = [ctxLayers EXCEPT ![y] = y]              \* ret.layers = ...
    /\ lists' = [lists EXCEPT ![y] = Layers(p)]              \*   self.layers.copy()
    /\ lastOp' = <<"fork", y>>
    /\ UNCHANGED <<connTls, lastSet, hookVars, lsnVars>>

\* Allocation: the next unused Context and Connection object.
NewCtx == IF \A x \in CtxId : CtxLive(x) THEN 1
          ELSE CHOOSE x \in CtxId : ~CtxLive(x) /\ \A z \in 1..(x - 1) : CtxLive(z)
NewObj == IF \A o \in Obj : Live(o) THEN 1
          ELSE CHOOSE o \in Obj : ~Live(o) /\ \A z \in 1..(o - 1) : Live(z)

\* ctx.layers.append(l)
LayerPush(x, l) ==
    /\ CtxLive(x)
    /\ Len(Layers(x)) < MaxLayers
    /\ lists' = [lists EXCEPT ![ctxLayers[x]] = Append(@, l)]
    /\ lastOp' = <<"layers", x>>
    /\ UNCHANGED <<connVars, ctxParent, ctxClient, ctxServer, ctxLayers, hookVars, lsnVars>>

\* ctx.layers.pop()
LayerPop(x) ==
    /\ CtxLive(x)
    /\ Len(Layers(x)) > 0
    /\ lists' = [lists EXCEPT ![ctxLayers[x]] = SubSeq(@, 1, Len(@) - 1)]
    /\ lastOp' = <<"layers", x>>
    /\ UNCHANGED <<connVars, ctxParent, ctxClient, ctxServer, ctxLayers, hookVars, lsnVars>>

\* ctx.layers[i] = l
LayerEdit(x, i, l) ==
    /\ CtxLive(x)
    /\ i \in 1..Len(Layers(x))
    /\ Layers(x)[i] # l
    /\ lists' = [lists EXCEPT ![ctxLayers[x]] = [@ EXCEPT ![i] = l]]
    /\ lastOp' = <<"layers", x>>
    /\ UNCHANGED <<connVars, ctxParent, ctxClient, ctxServer, ctxLayers, hookVars, lsnVars>>

\* ctx.client.connected = val, ctx.server.connected = val
CtxSetConnected(x, side, val) ==
    /\ CtxLive(x)
    /\ LET o == IF side = "client" THEN ctxClient[x] ELSE ctxServer[x]
       IN  connected(connState[o]) # val /\ SetConnected(o, val)
    /\ lastOp' = <<"conn", x>>
    /\ UNCHANGED <<lastSet, ctxParent, ctxClient, ctxServer, ctxLayers, lists, hookVars, lsnVars>>

\* ctx.client.tls_established = val, ctx.server.tls_established = val
CtxSetTls(x, side, val) ==
    /\ CtxLive(x)
    /\ SetTls(IF side = "client" THEN ctxClient[x] ELSE ctxServer[x], val)
    /\ lastOp' = <<"conn", x>>
    /\ UNCHANGED <<lastSet, ctxParent, ctxClient, ctxServer, ctxLayers, lists, hookVars, lsnVars>>

\* Context(Client(addr), options): the root context of an accepted connection.
InitCtx ==
    /\ connKind = [o \in Obj |-> IF o = 1 THEN "Client"
                                 ELSE IF o = 2 THEN "Server" ELSE "none"]
    /\ connState = [o \in Obj |-> IF o = 1 THEN Client_init ELSE Server_init]
    /\ connTls = [o \in Obj |-> FALSE]
    /\ lastSet = [o \in Obj |-> <<>>]
    /\ ctxParent = [x \in CtxId |-> IF x = 1 THEN 0 ELSE -1]
    /\ ctxClient = [x \in CtxId |-> IF x = 1 THEN 1 ELSE 0]
    /\ ctxServer = [x \in CtxId |-> IF x = 1 THEN 2 ELSE 0]
    /\ ctxLayers = [x \in CtxId |-> IF x = 1 THEN 1 ELSE 0]
    /\ lists = [l \in CtxId |-> <<>>]
    /\ lastOp = <<"init", 0>>
    /\ HookInitVars("none")
    /\ LsnInitVars(TRUE)

NextCtx ==
    \/ \E p \in CtxId : fork(p, NewCtx, NewObj)
    \/ \E x \in CtxId, l \in LayerIds : LayerPush(x, l)
    \/ \E x \in CtxId : LayerPop(x)
    \/ \E x \in CtxId, i \in 1..MaxLayers, l \in LayerIds : LayerEdit(x, i, l)
    \/ \E x \in CtxId, side \in {"client", "server"}, val \in BOOLEAN :
          CtxSetConnected(x, side, val)
    \/ \E x \in CtxId, side \in {"client", "server"}, val \in BOOLEAN :
          CtxSetTls(x, side, val)

SpecCtx == InitCtx /\ [][NextCtx]_vars

(***************************************************************************)
(* TimeoutWatchdog (proxy2/server.py): disarm() is a scope; the watchdog   *)
(* can time out only while no scope is open, and leaving the last scope    *)
(* registers activity, which restarts the idle window.                     *)
(***************************************************************************)
wd_disarm(b, c) == [b EXCEPT ![c] = @ + 1]
wd_rearm(b, c) == [b EXCEPT ![c] = @ - 1]
wd_activity(e, b, c) == IF b[c] = 0 THEN [e EXCEPT ![c] = FALSE] ELSE e

\* The idle window of connection c elapses without I/O.
WatchdogTick(c) ==
    /\ ~loopClosed /\ ~fired[c] /\ ~expired[c]
    /\ expired' = [expired EXCEPT ![c] = TRUE]
    /\ UNCHANGED <<lsnVars, connVars, ctxVars, handler, sideVars, hpc, reply, replyVars, loopClosed, blocker, fired>>

\* I/O on connection c registers activity.
WatchdogActivity(c) ==
    /\ ~loopClosed /\ ~fired[c] /\ expired[c]
    /\ expired' = [expired EXCEPT ![c] = FALSE]
    /\ UNCHANGED <<lsnVars, connVars, ctxVars, handler, sideVars, hpc, reply, replyVars, loopClosed, blocker, fired>>

\* The watchdog of connection c times out: the handler closes the connection.
WatchdogFire(c) ==
    /\ ~loopClosed /\ ~fired[c]
    /\ blocker[c] = 0 /\ expired[c]
    /\ fired' = [fired EXCEPT ![c] = TRUE]
    /\ UNCHANGED <<lsnVars, connVars, ctxVars, handler, sideVars, hpc, reply, replyVars, loopClosed, blocker, expired>>

(***************************************************************************)
(* ProxyConnectionHandler.handle_hook.  Between two awaits a coroutine     *)
(* runs without interruption by the loop, so each action runs from one     *)
(* await to the next.                                                      *)
(***************************************************************************)
\* The handler of an accepted connection (StreamConnectionHandler,
\* proxy2/server.py): it dispatches hooks while it runs, and an exception
\* that escapes a dispatch is fatal for its connection and for nothing else.
HandlerRuns(c) == handler[c] = "running"
handler_fatal(h, c) == [h EXCEPT ![c] = "failed"]

\* Leaving the "with self.timeout_watchdog.disarm()" block, on any path.
with_exit(c) ==
    /\ blocker' = wd_rearm(blocker, c)
    /\ expired' = wd_activity(expired, blocker', c)
    /\ fired' = fired

\* Lines 44-48: enter the with block, unpack the hook, attach a new
\* AsyncReply and call handle_lifecycle.  A hook that does not carry exactly
\* one value fails the unpacking: the exception leaves the with block.
handle_hook_enter_reply_first(t, nargs) ==
    /\ hpc[t] = "idle" /\ ~loopClosed /\ ~fired[taskConn(t)]
    /\ HandlerRuns(taskConn(t))
    /\ IF nargs = 1
       THEN /\ hpc' = [hpc EXCEPT ![t] = "lifecycle"]
            /\ reply' = [reply EXCEPT ![t] = t]
            /\ blocker' = wd_disarm(blocker, taskConn(t))
            /\ UNCHANGED <<expired, fired, handler>>
       ELSE /\ hpc' = [hpc EXCEPT ![t] = "rejected"]
            /\ reply' = [reply EXCEPT ![t] = t]
            /\ blocker' = wd_rearm(wd_disarm(blocker, taskConn(t)), taskConn(t))
            /\ expired' = wd_activity(expired, blocker', taskConn(t))
            /\ fired' = fired
            /\ handler' = handler_fatal(handler, taskConn(t))
    /\ UNCHANGED <<lsnVars, connVars, ctxVars, sideVars, replyVars, loopClosed>>

handle_hook_enter(t, nargs) ==
    /\ hpc[t] = "idle" /\ ~loopClosed /\ ~fired[taskConn(t)]
    /\ HandlerRuns(taskConn(t))
    /\ IF nargs = 1
       THEN /\ hpc' = [hpc EXCEPT ![t] = "lifecycle"]
            /\ reply' = [reply EXCEPT ![t] = t]
            /\ blocker' = wd_disarm(blocker, taskConn(t))
            /\ UNCHANGED <<expired, fired, handler>>
       ELSE /\ hpc' = [hpc EXCEPT ![t] = "rejected"]
            /\ reply' = reply
            /\ blocker' = wd_rearm(wd_disarm(blocker, taskConn(t)), taskConn(t))
            /\ expired' = wd_activity(expired, blocker', taskConn(t))
            /\ fired' = fired
            /\ handler' = handler_fatal(handler, taskConn(t))
    /\ UNCHANGED <<lsnVars, connVars, ctxVars, sideVars, replyVars, loopClosed>>

\* Line 48 returns: go on to await data.reply.done.wait(), inside the block.
handle_lifecycle_returns_outside_scope(t) ==
    /\ hpc[t] = "lifecycle" /\ ~loopClosed
    /\ hpc' = [hpc EXCEPT ![t] = "waiting"]
    /\ with_exit(taskConn(t))
    /\ UNCHANGED <<lsnVars, connVars, ctxVars, handler, sideVars, reply, replyVars, loopClosed>>

handle_lifecycle_returns(t) ==
    /\ hpc[t] = "lifecycle" /\ ~loopClosed
    /\ hpc' = [hpc EXCEPT ![t] = "waiting"]
    /\ UNCHANGED <<lsnVars, connVars, ctxVars, handler, sideVars, reply, replyVars, loopClosed, wdVars>>

\* Line 48 raises: the exception leaves the with block.
handle_lifecycle_raises(t) ==
    /\ hpc[t] = "lifecycle" /\ ~loopClosed
    /\ hpc' = [hpc EXCEPT ![t] = "raised"]
    /\ with_exit(taskConn(t))
    /\ UNCHANGED <<lsnVars, connVars, ctxVars, handler, sideVars, reply, replyVars, loopClosed>>

\* The task is cancelled at either await: CancelledError leaves the block.
handle_hook_cancelled_no_finally(t) ==
    /\ hpc[t] \in InFlightPc /\ ~loopClosed
    /\ hpc' = [hpc EXCEPT ![t] = "cancelled"]
    /\ UNCHANGED <<lsnVars, connVars, ctxVars, handler, sideVars, reply, replyVars, loopClosed, wdVars>>

handle_hook_cancelled(t) ==
    /\ hpc[t] \in InFlightPc /\ ~loopClosed
    /\ hpc' = [hpc EXCEPT ![t] = "cancelled"]
    /\ with_exit(taskConn(t))
    /\ UNCHANGED <<lsnVars, connVars, ctxVars, handler, sideVars, reply, replyVars, loopClosed>>

\* Lines 49-50: done.wait() returns once the Event of the payload's reply is
\* set; the reply reference is cleared and the with block is left.
handle_hook_resume_no_wait(t) ==
    /\ hpc[t] = "waiting" /\ ~loopClosed
    /\ hpc' = [hpc EXCEPT ![t] = "returned"]
    /\ reply' = [reply EXCEPT ![t] = 0]
    /\ with_exit(taskConn(t))
    /\ UNCHANGED <<lsnVars, connVars, ctxVars, handler, sideVars, replyVars, loopClosed>>

handle_hook_resume_keeps_reply(t) ==
    /\ hpc[t] = "waiting" /\ ~loopClosed
    /\ reply[t] # 0 /\ done[reply[t]]
    /\ hpc' = [hpc EXCEPT ![t] = "returned"]
    /\ reply' = reply
    /\ with_exit(taskConn(t))
    /\ UNCHANGED <<lsnVars, connVars, ctxVars, handler, sideVars, replyVars, loopClosed>>

handle_hook_resume(t) ==
    /\ hpc[t] = "waiting" /\ ~loopClosed
    /\ reply[t] # 0 /\ done[reply[t]]
    /\ hpc' = [hpc EXCEPT ![t] = "returned"]
    /\ reply' = [reply EXCEPT ![t] = 0]
    /\ with_exit(taskConn(t))
    /\ UNCHANGED <<lsnVars, connVars, ctxVars, handler, sideVars, replyVars, loopClosed>>

(***************************************************************************)
(* AsyncReply.  Reply r exists once dispatch r has constructed it.         *)
(***************************************************************************)
ReplyExists(r) == hpc[r] \notin {"idle", "rejected"}

\* controller.Reply.commit: the reply becomes committed.
Reply_commit(r) == [committed EXCEPT ![r] = TRUE]

\* loop.call_soon_threadsafe raises RuntimeError on a closed loop.
call_soon_threadsafe_raises == loopClosed

\* AsyncReply.commit, called by the addon pipeline from any thread.
commit_no_except(r) ==
    /\ ReplyExists(r) /\ ~committed[r]
    /\ committed' = Reply_commit(r)
    /\ lateCommit' = [lateCommit EXCEPT ![r] = loopClosed]
    /\ IF call_soon_threadsafe_raises
       THEN /\ commitResult' = [commitResult EXCEPT ![r] = "raised"]
            /\ ready' = ready
       ELSE /\ commitResult' = [commitResult EXCEPT ![r] = "ok"]
            /\ ready' = Append(ready, r)
    /\ UNCHANGED <<lsnVars, connVars, ctxVars, handler, sideVars, hpc, reply, done, loopClosed, wdVars>>

commit(r) ==
    /\ ReplyExists(r) /\ ~committed[r]
    /\ committed' = Reply_commit(r)
    /\ lateCommit' = [lateCommit EXCEPT ![r] = loopClosed]
    /\ commitResult' = [commitResult EXCEPT ![r] = "ok"]   \* except RuntimeError: pass
    /\ ready' = IF call_soon_threadsafe_raises THEN ready ELSE Append(ready, r)
    /\ UNCHANGED <<lsnVars, connVars, ctxVars, handler, sideVars, hpc, reply, done, loopClosed, wdVars>>

\* The loop runs the next scheduled callback: lambda: self.done.set()
LoopRunCallback_wakes_waiter_only ==
    /\ ~loopClosed /\ ready # <<>>
    /\ done' = IF hpc[Head(ready)] = "waiting"
               THEN [done EXCEPT ![Head(ready)] = TRUE]
               ELSE done
    /\ ready' = Tail(ready)
    /\ UNCHANGED <<lsnVars, connVars, ctxVars, handler, sideVars, hpc, reply, committed,
                   commitResult, lateCommit, loopClosed, wdVars>>

LoopRunCallback ==
    /\ ~loopClosed /\ ready # <<>>
    /\ done' = [done EXCEPT ![Head(ready)] = TRUE]
    /\ ready' = Tail(ready)
    /\ UNCHANGED <<lsnVars, connVars, ctxVars, handler, sideVars, hpc, reply, committed, commitResult,
                   lateCommit, loopClosed, wdVars>>

\* The loop is closed: scheduled callbacks are dropped and no coroutine of
\* the loop runs again.
LoopClose ==
    /\ ~loopClosed
    /\ loopClosed' = TRUE
    /\ ready' = <<>>
    /\ UNCHANGED <<lsnVars, connVars, ctxVars, handler, sideVars, hpc, reply, done, committed, commitResult,
                   lateCommit, wdVars>>

InitHook ==
    /\ connKind = [o \in Obj |-> "none"]
    /\ connState = [o \in Obj |-> CLOSED]
    /\ connTls = [o \in Obj |-> FALSE]
    /\ lastSet = [o \in Obj |-> <<>>]
    /\ CtxInitVars
    /\ HookInitVars("running")
    /\ LsnInitVars(TRUE)

NArgs == {0, 1, 2}

NextHook ==
    \/ \E t \in Task, n \in NArgs : handle_hook_enter(t, n)
    \/ \E t \in Task : handle_lifecycle_returns(t)
    \/ \E t \in Task : handle_lifecycle_raises(t)
    \/ \E t \in Task : handle_hook_cancelled(t)
    \/ \E t \in Task : handle_hook_resume(t)
    \/ \E r \in Task : commit(r)
    \/ LoopRunCallback
    \/ LoopClose
    \/ \E c \in Conn : WatchdogTick(c)
    \/ \E c \in Conn : WatchdogActivity(c)
    \/ \E c \in Conn : WatchdogFire(c)

SpecHook == InitHook /\ [][NextHook]_vars

\* The handshake alone (no timer), with the fairness of the event loop: a
\* scheduled callback is run, and a task whose awaited Event is set is resumed.
NextHandshake ==
    \/ \E t \in Task, n \in NArgs : handle_hook_enter(t, n)
    \/ \E t \in Task : handle_lifecycle_returns(t)
    \/ \E t \in Task : handle_lifecycle_raises(t)
    \/ \E t \in Task : handle_hook_cancelled(t)
    \/ \E t \in Task : handle_hook_resume(t)
    \/ \E r \in Task : commit(r)
    \/ LoopRunCallback
    \/ LoopClose

SpecHookLive ==
    /\ InitHook
    /\ [][NextHandshake]_vars
    /\ WF_vars(LoopRunCallback)
    /\ \A t \in Task : WF_vars(handle_hook_resume(t))

\* The handshake where every call of the pipeline returns and no task is
\* cancelled; the loop may be closed.
NextWake ==
    \/ \E t \in Task, n \in NArgs : handle_hook_enter(t, n)
    \/ \E t \in Task : handle_lifecycle_returns(t)
    \/ \E t \in Task : handle_hook_resume(t)
    \/ \E r \in Task : commit(r)
    \/ LoopRunCallback
    \/ LoopClose

SpecHookWake ==
    /\ InitHook
    /\ [][NextWake]_vars
    /\ WF_vars(LoopRunCallback)
    /\ \A t \in Task : WF_vars(handle_hook_resume(t))
    /\ \A t \in Task : WF_vars(handle_lifecycle_returns(t))

(***************************************************************************)
(* AsyncReply.kill, and the handshake with it on a loop that stays open    *)
(* and with no task cancelled.  The payload of dispatch r is the obj of    *)
(* reply r.                                                                *)
(***************************************************************************)
KILLED_MESSAGE == "killed"

\* AsyncReply.kill, lines 30-32: warn, then self.obj.error = flow.Error(...).
kill_completes(r) ==
    /\ ReplyExists(r)
    /\ error' = [error EXCEPT ![r] = KILLED_MESSAGE]
    /\ done' = [done EXCEPT ![r] = TRUE]
    /\ UNCHANGED <<lsnVars, connVars, ctxVars, handler, logs, hpc, reply, committed,
                   commitResult, lateCommit, ready, loopClosed, wdVars>>

kill(r) ==
    /\ ReplyExists(r)
    /\ error' = [error EXCEPT ![r] = KILLED_MESSAGE]
    /\ UNCHANGED <<lsnVars, connVars, ctxVars, handler, logs, hpc, reply, replyVars,
                   loopClosed, wdVars>>

NextPayload ==
    \/ \E t \in Task, n \in NArgs : handle_hook_enter(t, n)
    \/ \E t \in Task : handle_lifecycle_returns(t)
    \/ \E t \in Task : handle_hook_resume(t)
    \/ \E r \in Task : commit(r)
    \/ \E r \in Task : kill(r)
    \/ LoopRunCallback

SpecPayload ==
    /\ InitHook
    /\ [][NextPayload]_vars
    /\ WF_vars(LoopRunCallback)
    /\ \A t \in Task : WF_vars(handle_hook_resume(t))

(***************************************************************************)
(* ProxyConnectionHandler.log.  The record carries a DummyReply, which has *)
(* no completion signal; the task that delivers it is one of the loop's.   *)
(***************************************************************************)
MaxLogs == 1

\* Lines 52-58: a LogEntry with a DummyReply is given to handle_lifecycle in
\* a new task, and log returns.
log_through_handle_hook(c) ==
    /\ HandlerRuns(c) /\ ~loopClosed
    /\ logs[c] < MaxLogs
    /\ logs' = [logs EXCEPT ![c] = @ + 1]
    /\ blocker' = wd_disarm(blocker, c)
    /\ UNCHANGED <<lsnVars, connVars, ctxVars, handler, error, hpc, reply, replyVars,
                   loopClosed, expired, fired>>

log(c) ==
    /\ HandlerRuns(c) /\ ~loopClosed
    /\ logs[c] < MaxLogs
    /\ logs' = [logs EXCEPT ![c] = @ + 1]
    /\ UNCHANGED <<lsnVars, connVars, ctxVars, handler, error, hpc, reply, replyVars,
                   loopClosed, wdVars>>

\* The task created by log runs: handle_lifecycle("log", x).
log_task_runs(c) ==
    /\ logs[c] > 0 /\ ~loopClosed
    /\ logs' = [logs EXCEPT ![c] = @ - 1]
    /\ UNCHANGED <<lsnVars, connVars, ctxVars, handler, error, hpc, reply, replyVars,
                   loopClosed, wdVars>>

NextLog ==
    \/ \E c \in Conn : log(c)
    \/ \E c \in Conn : log_task_runs(c)
    \/ \E t \in Task, n \in NArgs : handle_hook_enter(t, n)
    \/ \E t \in Task : handle_lifecycle_returns(t)
    \/ \E t \in Task : handle_hook_resume(t)
    \/ \E r \in Task : commit(r)
    \/ LoopRunCallback
    \/ \E c \in Conn : WatchdogTick(c)
    \/ \E c \in Conn : WatchdogActivity(c)

SpecLog == InitHook /\ [][NextLog]_vars

(***************************************************************************)
(* Proxyserver.  refresh_server runs as a task of the event loop; tasks    *)
(* take their first step in the order of their creation, and an action     *)
(* runs one task from one await to the next.                               *)
(***************************************************************************)
Keys == {"server", "listen_host", "listen_port", "connection_strategy"}
RebuildKeys == {"server", "listen_host", "listen_port"}
Started(t) == rpc[t] \notin {"none", "created"}
Finished(t) == rpc[t] \in {"done", "failed"}

\* asyncio.create_task(self.refresh_server())
create_task ==
    /\ numCreated < MaxRefresh
    /\ numCreated' = numCreated + 1
    /\ rpc' = [rpc EXCEPT ![numCreated + 1] = "created"]

\* Proxyserver.configure(updated), lines 93-97; run is the value of
\* self.is_running when the call is made.
configure_all(run, updated) ==
    IF ~run
    THEN UNCHANGED <<rpc, numCreated>>
    ELSE IF \A x \in RebuildKeys : x \in updated
         THEN create_task
         ELSE UNCHANGED <<rpc, numCreated>>

configure_from(run, updated) ==
    IF ~run
    THEN UNCHANGED <<rpc, numCreated>>
    ELSE IF \E x \in RebuildKeys : x \in updated
         THEN create_task
         ELSE UNCHANGED <<rpc, numCreated>>

configure(updated) == configure_from(is_running, updated)

\* Proxyserver.running(), lines 87-91.
running ==
    /\ ~is_running
    /\ is_running' = TRUE
    /\ configure_from(TRUE, {"listen_port"})
    /\ UNCHANGED <<server, optVars, lockVars, reqAddr, sockVars, cfgHist, excAt>>
    /\ UNCHANGED <<connVars, ctxVars, hookVars>>

\* A call of configure by the addon manager that changes no option value
\* (at start-up it passes every key).
configure_call(updated) ==
    /\ configure(updated)
    /\ lastUpdated' = updated
    /\ UNCHANGED <<is_running, server, optVars, lockVars, reqAddr, sockVars, excAt>>
    /\ UNCHANGED <<connVars, ctxVars, hookVars>>

\* options.update(...): the values of the keys in updated change, then the
\* addon manager calls configure(updated).
Changed(flag, host, port) ==
    {k \in RebuildKeys : \/ k = "server" /\ flag # optServer
                         \/ k = "listen_host" /\ host # optHost
                         \/ k = "listen_port" /\ port # optPort}

options_update(flag, host, port) ==
    /\ Changed(flag, host, port) # {}
    /\ optServer' = flag /\ optHost' = host /\ optPort' = port
    /\ configure(Changed(flag, host, port))
    /\ lastUpdated' = Changed(flag, host, port)
    /\ UNCHANGED <<is_running, server, lockVars, reqAddr, sockVars, excAt>>
    /\ UNCHANGED <<connVars, ctxVars, hookVars>>

\* Leaving "async with self._lock": the lock is free again; the first waiter
\* is woken and takes it when it runs.
lock_release == lockHolder' = 0

\* Lines 104-109, up to the await of start_server; with the enable flag off
\* the body ends and the lock is released.
refresh_open(t) ==
    IF optServer
    THEN /\ rpc' = [rpc EXCEPT ![t] = "opening"]
         /\ reqAddr' = [reqAddr EXCEPT ![t] = <<optHost, optPort>>]
         /\ lockHolder' = t
    ELSE /\ rpc' = [rpc EXCEPT ![t] = "done"]
         /\ reqAddr' = reqAddr
         /\ lock_release

\* Lines 101-102 and 114-116, run by task t once it holds the lock: an
\* existing server is closed (its socket is closed by close()) and the task
\* awaits wait_closed; without a server the body goes on to line 104.
refresh_locked_keeps_socket(t) ==
    IF server # 0
    THEN /\ rpc' = [rpc EXCEPT ![t] = "closing"]
         /\ lockHolder' = t
         /\ UNCHANGED <<server, reqAddr, sockVars>>
    ELSE /\ refresh_open(t)
         /\ UNCHANGED <<server, sockVars>>

refresh_locked(t) ==
    IF server # 0
    THEN /\ sockOpen' = [sockOpen EXCEPT ![server] = FALSE]
         /\ sockAddr' = [sockAddr EXCEPT ![server] = NoAddr]
         /\ rpc' = [rpc EXCEPT ![t] = "closing"]
         /\ lockHolder' = t
         /\ UNCHANGED <<server, reqAddr>>
    ELSE /\ refresh_open(t)
         /\ UNCHANGED <<server, sockVars>>

\* Line 100: the task starts and asks for the lock.
refresh_acquire_no_lock(t) ==
    /\ rpc[t] = "created"
    /\ \A u \in 1..(t - 1) : Started(u)
    /\ refresh_locked(t)
    /\ UNCHANGED lockWaiters
    /\ UNCHANGED <<is_running, optVars, numCreated, cfgHist, excAt>>
    /\ UNCHANGED <<connVars, ctxVars, hookVars>>

refresh_acquire(t) ==
    /\ rpc[t] = "created"
    /\ \A u \in 1..(t - 1) : Started(u)
    /\ IF lockHolder = 0 /\ lockWaiters = <<>>
       THEN /\ refresh_locked(t)
            /\ UNCHANGED lockWaiters
       ELSE /\ rpc' = [rpc EXCEPT ![t] = "waitlock"]
            /\ lockWaiters' = Append(lockWaiters, t)
            /\ UNCHANGED <<lockHolder, server, reqAddr, sockVars>>
    /\ UNCHANGED <<is_running, optVars, numCreated, cfgHist, excAt>>
    /\ UNCHANGED <<connVars, ctxVars, hookVars>>

\* The first waiter is resumed with the lock.
refresh_lock_granted_early(t) ==
    /\ rpc[t] = "waitlock"
    /\ lockWaiters # <<>> /\ Head(lockWaiters) = t
    /\ lockWaiters' = Tail(lockWaiters)
    /\ refresh_locked(t)
    /\ UNCHANGED <<is_running, optVars, numCreated, cfgHist, excAt>>
    /\ UNCHANGED <<connVars, ctxVars, hookVars>>

refresh_lock_granted(t) ==
    /\ rpc[t] = "waitlock"
    /\ lockHolder = 0 /\ lockWaiters # <<>> /\ Head(lockWaiters) = t
    /\ lockWaiters' = Tail(lockWaiters)
    /\ refresh_locked(t)
    /\ UNCHANGED <<is_running, optVars, numCreated, cfgHist, excAt>>
    /\ UNCHANGED <<connVars, ctxVars, hookVars>>

\* Lines 116-117 and 103: wait_closed returns, self.server = None, and the
\* body goes on to line 104.
refresh_closed_cancels_handlers(t) ==
    /\ rpc[t] = "closing"
    /\ server' = 0
    /\ refresh_open(t)
    /\ handler' = [c \in Conn |-> IF HandlerRuns(c) THEN "cancelled" ELSE handler[c]]
    /\ UNCHANGED <<is_running, optVars, numCreated, lockWaiters, sockVars, cfgHist, excAt>>
    /\ UNCHANGED <<connVars, ctxVars, hpc, reply, replyVars, loopClosed, wdVars, sideVars>>

refresh_closed(t) ==
    /\ rpc[t] = "closing"
    /\ server' = 0
    /\ refresh_open(t)
    /\ UNCHANGED <<is_running, optVars, numCreated, lockWaiters, sockVars, cfgHist, excAt>>
    /\ UNCHANGED <<connVars, ctxVars, hookVars>>

\* start_server binds the listening socket; it has not returned yet.
start_server_binds(t) ==
    /\ rpc[t] = "opening"
    /\ \A u \in RTask : sockOpen[u] => sockAddr[u] # reqAddr[t]
    /\ sockOpen' = [sockOpen EXCEPT ![t] = TRUE]
    /\ sockAddr' = [sockAddr EXCEPT ![t] = reqAddr[t]]
    /\ reqAddr' = [reqAddr EXCEPT ![t] = NoAddr]
    /\ rpc' = [rpc EXCEPT ![t] = "bound"]
    /\ UNCHANGED <<is_running, server, optVars, numCreated, lockVars, cfgHist, excAt>>
    /\ UNCHANGED <<connVars, ctxVars, hookVars>>

\* start_server raises OSError (the address is in use): the exception
\* leaves the async with block and ends the task.  It is kept in the Task
\* object, which configure did not keep (line 97) and nothing awaits.
start_server_fails_keeps_lock(t) ==
    /\ rpc[t] = "opening"
    /\ rpc' = [rpc EXCEPT ![t] = "failed"]
    /\ reqAddr' = [reqAddr EXCEPT ![t] = NoAddr]
    /\ excAt' = [excAt EXCEPT ![t] = "task"]
    /\ UNCHANGED <<is_running, server, optVars, numCreated, lockVars,
                   sockVars, cfgHist>>
    /\ UNCHANGED <<connVars, ctxVars, hookVars>>

start_server_fails(t) ==
    /\ rpc[t] = "opening"
    /\ rpc' = [rpc EXCEPT ![t] = "failed"]
    /\ reqAddr' = [reqAddr EXCEPT ![t] = NoAddr]
    /\ lock_release
    /\ excAt' = [excAt EXCEPT ![t] = "task"]
    /\ UNCHANGED <<is_running, server, optVars, numCreated, lockWaiters,
                   sockVars, cfgHist>>
    /\ UNCHANGED <<connVars, ctxVars, hookVars>>

\* Lines 105-111: start_server returns, self.server is assigned, the address
\* is logged and the lock released.
refresh_started(t) ==
    /\ rpc[t] = "bound"
    /\ server' = t
    /\ rpc' = [rpc EXCEPT ![t] = "done"]
    /\ lock_release
    /\ UNCHANGED <<is_running, optVars, numCreated, lockWaiters, reqAddr,
                   sockVars, cfgHist, excAt>>
    /\ UNCHANGED <<connVars, ctxVars, hookVars>>

InitListener ==
    /\ connKind = [o \in Obj |-> "none"]
    /\ connState = [o \in Obj |-> CLOSED]
    /\ connTls = [o \in Obj |-> FALSE]
    /\ lastSet = [o \in Obj |-> <<>>]
    /\ CtxInitVars
    /\ HookInitVars("none")
    /\ \E flag \in BOOLEAN : LsnInitVars(flag)

NextListener ==
    \/ running
    \/ \E K \in {Keys, {"connection_strategy"}} : configure_call(K)
    \/ \E flag \in BOOLEAN, host \in Hosts, port \in Ports :
          options_update(flag, host, port)
    \/ \E t \in RTask : refresh_acquire(t)
    \/ \E t \in RTask : refresh_lock_granted(t)
    \/ \E t \in RTask : refresh_closed(t)
    \/ \E t \in RTask : start_server_binds(t)
    \/ \E t \in RTask : start_server_fails(t)
    \/ \E t \in RTask : refresh_started(t)

SpecListener == InitListener /\ [][NextListener]_vars

(***************************************************************************)
(* Accepted connections.  asyncio runs the callback given to start_server, *)
(* handle_connection, as a task of its own for every accepted connection;  *)
(* Server.close() closes the listening socket only, and wait_closed() does *)
(* not wait for the handlers of connections accepted before.               *)
(***************************************************************************)
MaxRebuilds == 2

Listening == \E u \in RTask : sockOpen[u]

\* Lines 119-131, up to the await of handle_client: a connection is accepted
\* on the listening socket and its handler starts.
handle_connection_under_lock(c) ==
    /\ Listening /\ ~loopClosed
    /\ handler[c] = "none"
    /\ lockHolder = 0
    /\ handler' = [handler EXCEPT ![c] = "running"]
    /\ UNCHANGED <<lsnVars, connVars, ctxVars, hpc, reply, replyVars, loopClosed,
                   wdVars, sideVars>>

handle_connection(c) ==
    /\ Listening /\ ~loopClosed
    /\ handler[c] = "none"
    /\ handler' = [handler EXCEPT ![c] = "running"]
    /\ UNCHANGED <<lsnVars, connVars, ctxVars, hpc, reply, replyVars, loopClosed,
                   wdVars, sideVars>>

\* Line 131 returns: handle_client has ended on its own.
handle_client_returns(c) ==
    /\ HandlerRuns(c) /\ ~loopClosed
    /\ InFlight(c) = {}
    /\ handler' = [handler EXCEPT ![c] = "finished"]
    /\ UNCHANGED <<lsnVars, connVars, ctxVars, hpc, reply, replyVars, loopClosed,
                   wdVars, sideVars>>

\* A configuration change that asks for a rebuild.
serve_configure ==
    /\ numCreated < MaxRebuilds
    /\ configure_call(Keys)

InitServe ==
    /\ connKind = [o \in Obj |-> "none"]
    /\ connState = [o \in Obj |-> CLOSED]
    /\ connTls = [o \in Obj |-> FALSE]
    /\ lastSet = [o \in Obj |-> <<>>]
    /\ CtxInitVars
    /\ HookInitVars("none")
    /\ LsnInitVars(TRUE)

NextServe ==
    \/ running
    \/ serve_configure
    \/ \E t \in RTask : refresh_acquire(t)
    \/ \E t \in RTask : refresh_lock_granted(t)
    \/ \E t \in RTask : refresh_closed(t)
    \/ \E t \in RTask : start_server_binds(t)
    \/ \E t \in RTask : refresh_started(t)
    \/ \E c \in Conn : handle_connection(c)
    \/ \E c \in Conn : handle_client_returns(c)
    \/ \E t \in Task, n \in NArgs : handle_hook_enter(t, n)
    \/ \E t \in Task : handle_lifecycle_returns(t)
    \/ \E t \in Task : handle_hook_resume(t)
    \/ \E r \in Task : commit(r)
    \/ LoopRunCallback

SpecServe == InitServe /\ [][NextServe]_vars

(***************************************************************************)
(*                              CLAIMS                                     *)
(***************************************************************************)

\* handle_hook has returned only if the reply of its own dispatch was
\* committed and its completion signal set.
C1_ReturnsOnlyAfterOwnCommit ==
    \A t \in Task : hpc[t] = "returned" => (committed[t] /\ done[t])

\* A dispatch waiting for a reply that was committed on an open loop is
\* resumed, unless it is cancelled or the loop is closed first.
C1_CommittedIsResumed ==
    \A t \in Task :
        (hpc[t] = "waiting" /\ committed[t] /\ ~lateCommit[t])
            ~> (hpc[t] \in {"returned", "cancelled"} \/ loopClosed)

\* C1: handle_hook never returns without a commit of the reply of its own
\* dispatch (no spurious wake-up, and no wake-up by the commit of another
\* dispatch's reply, of the same or of another connection); and once that
\* reply is committed the dispatch waiting for it is resumed.
C1_HookHandshake == [](C1_ReturnsOnlyAfterOwnCommit) /\ C1_CommittedIsResumed

\* C1 witness: of two dispatches of one connection, the committed one has
\* returned and the uncommitted one is still suspended; so is an uncommitted
\* dispatch of the other connection.
C1_Witness ==
    /\ hpc[1] = "returned" /\ committed[1]
    /\ hpc[2] = "waiting" /\ ~committed[2]
    /\ hpc[3] = "waiting" /\ ~committed[3]

\* A step in which a watchdog fires is taken with no dispatch of its
\* connection in flight.
C2_FiresOnlyWhenNoHook ==
    \A c \in Conn : (fired'[c] /\ ~fired[c]) => InFlight(c) = {}

\* With no dispatch of a connection in flight, no disarm scope is open.
C2_ArmedWhenNoHook ==
    \A c \in Conn : InFlight(c) = {} => blocker[c] = 0

\* C2: the idle-timeout watchdog of a connection never fires while a hook
\* dispatch of that connection is in flight, however long it takes and
\* however many dispatches overlap; with none in flight it is armed again.
C2_WatchdogSuspendedDuringHooks ==
    [](C2_ArmedWhenNoHook) /\ [][C2_FiresOnlyWhenNoHook]_vars

\* C2 witness: two dispatches of connection 1 overlap, the idle window has
\* elapsed meanwhile, and the watchdog has not fired.
C2_Witness ==
    /\ hpc[1] = "waiting" /\ hpc[2] = "lifecycle"
    /\ expired[1] /\ ~fired[1]

\* A step in which a dispatch leaves handle_hook closes one disarm scope; a
\* rejected hook leaves as many open as it found.
C3_ExitClosesScope ==
    \A t \in Task :
        /\ (hpc[t] \in InFlightPc /\ hpc'[t] \in ExitPc)
              => blocker'[taskConn(t)] = blocker[taskConn(t)] - 1
        /\ (hpc[t] = "idle" /\ hpc'[t] = "rejected")
              => blocker'[taskConn(t)] = blocker[taskConn(t)]

\* The open disarm scopes of a connection are its dispatches in flight.
C3_ScopesAreDispatches ==
    \A c \in Conn : blocker[c] = Cardinality(InFlight(c))

\* C3: every exit of handle_hook rearms the watchdog it disarmed on entry:
\* return after the commit, exception of handle_lifecycle, rejection of a
\* hook that is not single-argument, cancellation at either await.
C3_EveryExitRearms ==
    [](C3_ScopesAreDispatches) /\ [][C3_ExitClosesScope]_vars

\* C3 witness: one dispatch was cancelled, one ended by an exception of
\* handle_lifecycle, one was rejected, and every watchdog is armed.
C3_Witness ==
    /\ hpc[1] = "cancelled" /\ hpc[2] = "raised" /\ hpc[3] = "rejected"
    /\ \A c \in Conn : blocker[c] = 0

Quiescent == \A t \in RTask : rpc[t] \in {"none", "done", "failed"}
OpenSockets == {t \in RTask : sockOpen[t]}

\* C4: when every rebuild scheduled by a burst of configure calls has ended,
\* with the manager running, the enable flag on and the last rebuild not
\* failed, exactly one listening socket is open: the one self.server refers
\* to, bound to the host and port last set; none of the others is open.
C4_BurstEndsWithOneSocket ==
    (is_running /\ optServer /\ Quiescent /\ numCreated >= 1
        /\ rpc[numCreated] = "done")
    => /\ server # 0
       /\ OpenSockets = {server}
       /\ sockAddr[server] = <<optHost, optPort>>

\* C4 witness: the rebuild scheduled by running() and three more have all
\* ended; only the socket of the last one is open, on the third port.
C4_Witness ==
    /\ is_running /\ optServer /\ Quiescent
    /\ numCreated = 4 /\ \A t \in 1..4 : rpc[t] = "done"
    /\ server = 4 /\ OpenSockets = {4}
    /\ optPort = 3 /\ sockAddr[4] = <<optHost, 3>>

InReady(r) == \E i \in 1..Len(ready) : ready[i] = r

\* No commit raises; a reply committed on a closed loop is committed, its
\* completion signal is not set and no callback for it is scheduled.
C5_LateCommitState ==
    \A r \in Task :
        /\ commitResult[r] # "raised"
        /\ lateCommit[r] => (committed[r] /\ ~done[r] /\ ~InReady(r))

\* A commit on a closed loop changes the committed mark of its reply only.
C5_LateCommitFrame ==
    \A r \in Task :
        (loopClosed /\ committed'[r] /\ ~committed[r]) =>
            /\ UNCHANGED <<hpc, reply, done, ready, loopClosed, wdVars>>
            /\ \A q \in Task \ {r} : committed'[q] = committed[q]

\* C5: AsyncReply.commit on a closed event loop does not raise: the failure
\* to schedule the completion signal is swallowed, the signal is never set,
\* and nothing changes but the reply being marked committed.
C5_CommitAfterLoopClosed == [](C5_LateCommitState) /\ [][C5_LateCommitFrame]_vars

\* C5 witness: a reply was committed on a closed loop while its dispatch was
\* still suspended on it.
C5_Witness ==
    \E r \in Task : lateCommit[r] /\ committed[r] /\ hpc[r] = "waiting" /\ loopClosed

\* C6 (as claimed): over any sequence of operations on a Client, including
\* assignments to .connected, its readiness never goes from closed back to
\* open.
C6_ClientNeverReopens ==
    [][\A o \in Obj :
          (connKind[o] = "Client" /\ ~connected(connState[o]))
              => ~connected(connState'[o])]_vars

\* Parent and child observe the same readiness and TLS state of their
\* Client and of their Server.
C7_SharedConnState ==
    \A y \in CtxId :
        ctxParent[y] > 0 =>
            LET p == ctxParent[y] IN
            /\ connState[ctxClient[y]] = connState[ctxClient[p]]
            /\ connTls[ctxClient[y]] = connTls[ctxClient[p]]
            /\ connState[ctxServer[y]] = connState[ctxServer[p]]
            /\ connTls[ctxServer[y]] = connTls[ctxServer[p]]

\* A write to one Context's layer stack changes no other Context's stack.
C7_LayersIsolated ==
    lists' # lists =>
        \A y \in CtxId \ {lastOp'[2]} : CtxLive(y) => Layers(y)' = Layers(y)

\* C7: after child = parent.fork(), pushes, pops and edits of the child's
\* layer stack leave the parent's unchanged, and vice versa, while a change
\* of the readiness or TLS state of the child's Client or Server is seen
\* through the parent's, whichever of the two it was made through.
C7_ForkCopiesLayersSharesConnections ==
    [](C7_SharedConnState) /\ [][C7_LayersIsolated]_vars

\* C7 witness: the last operation changed connection state through a forked
\* child, the parent sees the changed state, and the two layer stacks differ.
C7_Witness ==
    \E y \in CtxId :
        /\ ctxParent[y] > 0
        /\ lastOp = <<"conn", y>>
        /\ connTls[ctxServer[ctxParent[y]]]
        /\ ~connected(connState[ctxClient[ctxParent[y]]])
        /\ Layers(y) # Layers(ctxParent[y])
        /\ Len(Layers(ctxParent[y])) > 0

\* C8: connected reads true iff both CAN_READ and CAN_WRITE are set (false
\* when closed and in both half-open states); after connected = false
\* neither flag is set and after connected = true both are, whatever the
\* state was before the assignment.
C8_ConnectedIffBothFlags ==
    \A o \in Obj :
        Live(o) =>
            /\ connected(connState[o]) <=>
                  (HasFlag(connState[o], CAN_READ) /\ HasFlag(connState[o], CAN_WRITE))
            /\ lastSet[o] # <<>> =>
                  /\ HasFlag(connState[o], CAN_READ) <=> lastSet[o][1]
                  /\ HasFlag(connState[o], CAN_WRITE) <=> lastSet[o][1]

\* C8 witness: one connection was set connected from a half-open state and
\* another sits in a half-open state, where connected reads false.
C8_Witness ==
    \E o1, o2 \in Obj :
        /\ Live(o1) /\ Live(o2)
        /\ lastSet[o1] = <<TRUE, CAN_WRITE>>
        /\ connected(connState[o1])
        /\ connState[o2] = CAN_READ
        /\ ~connected(connState[o2])

\* A step that is a call of configure: the running flag is as before and
\* the recorded argument or the number of tasks changes.
C9_ConfigureStep ==
    (is_running' = is_running
        /\ (lastUpdated' # lastUpdated \/ numCreated' # numCreated))
    => /\ numCreated' = numCreated +
              (IF is_running /\ lastUpdated' \cap RebuildKeys # {} THEN 1 ELSE 0)
       /\ \A t \in RTask :
              rpc'[t] = IF t > numCreated /\ t <= numCreated' THEN "created"
                        ELSE rpc[t]
       /\ UNCHANGED <<server, lockVars, sockVars, reqAddr>>

\* C9: configure creates no task when the manager is not running; when it
\* runs, it creates exactly one refresh_server task iff the argument holds
\* one of server, listen_host, listen_port; the task has not run when the
\* call returns, and the call touches neither the server reference, the
\* lock, the sockets nor any other task.
C9_ConfigureSchedulesOnly == [][C9_ConfigureStep]_vars

\* C9 witness: while one rebuild is opening its socket and another is
\* scheduled, configure was called with a key that needs no rebuild.
C9_Witness ==
    /\ is_running /\ lastUpdated = {"connection_strategy"}
    /\ numCreated = 2 /\ rpc[1] = "opening" /\ rpc[2] = "created"

\* The step in which a rebuild ends because start_server failed leaves no
\* socket open, no server reference and the lock free.
C10_FailureStep ==
    \A t \in RTask :
        (rpc'[t] = "failed" /\ rpc[t] # "failed") =>
            /\ server' = 0
            /\ \A u \in RTask : ~sockOpen'[u]
            /\ lockHolder' = 0

\* The lock is never held by a rebuild that has ended.
C10_LockNotLeftHeld == lockHolder # 0 => ~Finished(lockHolder)

\* C10: a rebuild whose start_server fails ends with no open socket, no
\* server reference (the previous server was closed first) and the lock
\* released, so that a later rebuild can take the lock and open a socket.
C10_FailedRebuildLeavesNoSocket ==
    [](C10_LockNotLeftHeld) /\ [][C10_FailureStep]_vars

\* C10 witness: a rebuild that replaced an open server failed, and a rebuild
\* scheduled after it took the lock and opened a socket.
C10_Witness ==
    /\ rpc[1] = "done" /\ rpc[2] = "failed" /\ rpc[3] = "done"
    /\ server = 3 /\ sockOpen[3] /\ lockHolder = 0

\* C11 (as claimed): the error of a rebuild whose start_server failed reaches
\* the caller of the configure call that scheduled the rebuild.
C11_RebuildErrorReachesCaller ==
    \A t \in RTask : rpc[t] = "failed" => excAt[t] = "caller"

\* A step in which a listening socket is closed or the server reference is
\* cleared leaves every handler and every dispatch where it was.
C12_ShutdownStep ==
    (\/ \E u \in RTask : sockOpen[u] /\ ~sockOpen'[u]
     \/ server # 0 /\ server' = 0)
    => (handler' = handler /\ hpc' = hpc)

\* While the socket listens, a connection can be accepted whatever the
\* handlers accepted before it are doing.
C12_AcceptDoesNotWait ==
    \A c \in Conn :
        (Listening /\ handler[c] = "none" /\ \E d \in Conn : HandlerRuns(d))
            => ENABLED handle_connection(c)

\* C12: closing the listening socket, in shutdown_server as called by a
\* rebuild, cancels no handler of a connection accepted before: each one is
\* still running afterwards unless it ended on its own; and every accepted
\* connection runs as a task of its own, so that the next accept does not
\* wait for a handler to finish.
C12_ShutdownKeepsHandlers ==
    [](C12_AcceptDoesNotWait) /\ [][C12_ShutdownStep]_vars

\* C12 witness: a rebuild has closed the socket and cleared the reference
\* and has not opened the next one; the two handlers accepted before are
\* running, one of them suspended in a hook.
C12_Witness ==
    /\ rpc[2] = "opening" /\ ~Listening /\ server = 0
    /\ HandlerRuns(1) /\ HandlerRuns(2)
    /\ hpc[1] = "waiting"

\* The step that rejects a hook attaches no reply, leaves the replies and
\* the loop's queue alone, ends the handler of its connection and changes
\* no other handler, no other dispatch and nothing of the Proxyserver.
C13_RejectionStep ==
    \A t \in Task :
        (hpc[t] = "idle" /\ hpc'[t] = "rejected") =>
            /\ reply' = reply
            /\ UNCHANGED replyVars
            /\ handler'[taskConn(t)] = "failed"
            /\ \A d \in Conn \ {taskConn(t)} : handler'[d] = handler[d]
            /\ \A u \in Task \ {t} : hpc'[u] = hpc[u]
            /\ UNCHANGED <<is_running, server, lockVars, rpc, sockVars>>

\* A rejected dispatch never had a reply and never reached the pipeline.
C13_RejectedNeverDispatched ==
    \A t \in Task :
        hpc[t] = "rejected" =>
            (reply[t] = 0 /\ ~committed[t] /\ ~done[t] /\ ~InReady(t))

\* C13: a hook that does not carry exactly one payload is rejected in
\* handle_hook before a reply is attached and before handle_lifecycle is
\* called; the failure ends the connection that dispatched it and leaves
\* every other handler, every other dispatch and the Proxyserver (server
\* reference, lock, running flag) unchanged.
C13_RejectionIsLocal ==
    [](C13_RejectedNeverDispatched) /\ [][C13_RejectionStep]_vars

\* C13 witness: a hook of connection 2 was rejected and its handler ended;
\* connection 1 has completed one dispatch and is suspended in another, and
\* the Proxyserver is listening.
C13_Witness ==
    /\ hpc[3] = "rejected" /\ handler[2] = "failed"
    /\ HandlerRuns(1) /\ hpc[1] = "returned" /\ hpc[2] = "waiting"
    /\ server # 0 /\ Listening

InSection == {t \in RTask : rpc[t] \in {"closing", "opening", "bound"}}

\* At most one task is between the close and the open, and it holds the lock.
C14_OneInSection ==
    /\ Cardinality(InSection) <= 1
    /\ \A t \in InSection : lockHolder = t

\* A step that changes self.server is a step of the task holding the lock.
C14_WriteStep ==
    server' # server =>
        /\ lockHolder # 0
        /\ rpc'[lockHolder] # rpc[lockHolder]
        /\ \A u \in RTask \ {lockHolder} : rpc'[u] = rpc[u]

\* C14: Proxyserver.server is written only by a task that holds the rebuild
\* lock: at most one task is inside the close-then-open section at a time,
\* and no step of configure, running or any other task changes the
\* reference.
C14_ServerWrittenUnderLock == [](C14_OneInSection) /\ [][C14_WriteStep]_vars

\* C14 witness: the second rebuild holds the lock and has cleared the
\* reference the first one set, while a third one waits for the lock.
C14_Witness ==
    /\ rpc[1] = "done" /\ rpc[2] = "opening" /\ lockHolder = 2
    /\ server = 0 /\ lockWaiters = <<3>>

\* While a dispatch is with the pipeline or waiting, its payload carries
\* the reply made for it; after a return it carries none; and no two
\* payloads carry the same reply.
C15_ReplyState ==
    \A t \in Task :
        /\ hpc[t] \in InFlightPc => reply[t] = t
        /\ hpc[t] = "returned" => reply[t] = 0
        /\ \A u \in Task \ {t} : reply[t] # 0 => reply[u] # reply[t]

\* The step that hands a payload to the pipeline has attached a reply that
\* is new: no payload carries it, it is not committed and its signal is not
\* set.  The step that returns has seen the signal of the reply attached,
\* and has cleared the reference.
C15_ReplyStep ==
    \A t \in Task :
        /\ (hpc[t] = "idle" /\ hpc'[t] = "lifecycle") =>
              /\ reply'[t] # 0
              /\ \A u \in Task : reply[u] # reply'[t]
              /\ ~committed[reply'[t]] /\ ~done[reply'[t]] /\ ~InReady(reply'[t])
        /\ (hpc[t] = "waiting" /\ hpc'[t] = "returned") =>
              /\ reply[t] # 0 /\ done[reply[t]]
              /\ reply'[t] = 0

\* C15: handle_hook attaches a new AsyncReply to the payload before it
\* calls the pipeline, and sets the payload's reply to None once it has
\* seen the completion signal and before it returns: after a dispatch that
\* completed normally the payload carries no reply, and no reply serves two
\* dispatches.
C15_ReplyAttachedThenCleared == [](C15_ReplyState) /\ [][C15_ReplyStep]_vars

\* C15 witness: of two dispatches of one connection, one has returned and
\* its payload carries no reply, while the payload of the other, which was
\* cancelled, still carries its own; a third dispatch is with the pipeline.
C15_Witness ==
    /\ hpc[1] = "returned" /\ reply[1] = 0 /\ done[1]
    /\ hpc[2] = "cancelled" /\ reply[2] = 2
    /\ hpc[3] = "lifecycle" /\ reply[3] = 3

\* The step of a kill sets the error of its payload to the killed marker
\* and does nothing else: no commit, no completion signal, no callback, no
\* move of any dispatch, no end of a handler.
C16_KillStep ==
    \A r \in Task :
        error'[r] # error[r] =>
            /\ error'[r] = KILLED_MESSAGE
            /\ \A q \in Task \ {r} : error'[q] = error[q]
            /\ UNCHANGED <<hpc, reply, replyVars, handler, wdVars>>

\* An error, once set, stays on the payload.
C16_ErrorStays ==
    \A r \in Task : error[r] = KILLED_MESSAGE => error'[r] = KILLED_MESSAGE

\* handle_hook has not returned for a killed payload whose reply is not
\* committed; and no dispatch ended with an exception because of an error.
C16_KilledStillWaits ==
    \A t \in Task :
        (error[t] = KILLED_MESSAGE /\ ~committed[t]) => hpc[t] # "returned"

\* A dispatch waiting for a killed payload whose reply was committed
\* returns, with the error on the payload.
C16_KilledReturnsAfterCommit ==
    \A t \in Task :
        (hpc[t] = "waiting" /\ committed[t] /\ error[t] = KILLED_MESSAGE)
            ~> (hpc[t] = "returned" /\ error[t] = KILLED_MESSAGE)

\* C16: an error on the payload, set through AsyncReply.kill, is neither a
\* failure of the handler nor a completion: kill sets the error and does
\* not fire the completion signal, handle_hook stays suspended until commit,
\* and after the commit it returns normally with the error on the payload.
C16_KillIsNotCompletion ==
    /\ [](C16_KilledStillWaits)
    /\ [][C16_KillStep /\ C16_ErrorStays]_vars
    /\ C16_KilledReturnsAfterCommit

\* C16 witness: a payload was killed while its dispatch waited, the reply
\* was committed afterwards, and handle_hook has returned with the error on
\* the payload; another killed payload, not committed, is still waited for.
C16_Witness ==
    /\ hpc[1] = "returned" /\ error[1] = KILLED_MESSAGE /\ committed[1]
    /\ hpc[2] = "waiting" /\ error[2] = KILLED_MESSAGE /\ ~committed[2]
    /\ HandlerRuns(1)

\* A step of a handler or of a dispatch changes neither the lock nor its
\* queue, nor any rebuild, nor the server reference and the sockets.
C17_HandlerStep ==
    hookVars' # hookVars => UNCHANGED <<lockVars, rpc, server, sockVars>>

\* The lock is held and awaited by refresh_server tasks only.
C17_LockHeldByRebuilds ==
    /\ lockHolder # 0 => rpc[lockHolder] \in {"closing", "opening", "bound"}
    /\ \A i \in 1..Len(lockWaiters) : rpc[lockWaiters[i]] = "waitlock"

\* Whatever the lock and the other connections are up to, a connection can
\* be accepted while the socket listens, a running handler can dispatch,
\* and a dispatch goes on once the pipeline call returns and once its own
\* signal is set; whatever the dispatches are up to, a rebuild can take each
\* of its steps.
C17_NothingBlocks ==
    /\ \A c \in Conn :
          (Listening /\ handler[c] = "none") => ENABLED handle_connection(c)
    /\ \A t \in Task :
          /\ (HandlerRuns(taskConn(t)) /\ hpc[t] = "idle")
                => ENABLED handle_hook_enter(t, 1)
          /\ hpc[t] = "lifecycle" => ENABLED handle_lifecycle_returns(t)
          /\ (hpc[t] = "waiting" /\ done[t]) => ENABLED handle_hook_resume(t)
    /\ ready # <<>> => ENABLED LoopRunCallback
    /\ \A t \in RTask :
          /\ (rpc[t] = "created" /\ \A u \in 1..(t - 1) : Started(u))
                => ENABLED refresh_acquire(t)
          /\ (rpc[t] = "waitlock" /\ lockHolder = 0 /\ Head(lockWaiters) = t)
                => ENABLED refresh_lock_granted(t)
          /\ rpc[t] = "closing" => ENABLED refresh_closed(t)
          /\ rpc[t] = "opening" => ENABLED start_server_binds(t)
          /\ rpc[t] = "bound" => ENABLED refresh_started(t)

\* C17: no handler takes or waits for the rebuild lock: connections are
\* accepted and hooks dispatched while a rebuild holds it, and a hook of one
\* connection that is never committed keeps neither the handler of another
\* connection nor a rebuild from going on.
C17_HandlersNeverTakeLock ==
    /\ [](C17_LockHeldByRebuilds /\ C17_NothingBlocks)
    /\ [][C17_HandlerStep]_vars

\* C17 witness: the first rebuild has bound its socket and still holds the
\* lock; since then both connections were accepted, a hook of connection 1
\* is suspended without a commit, and a hook of connection 2 has returned.
C17_Witness ==
    /\ rpc[1] = "bound" /\ lockHolder = 1
    /\ hpc[1] = "waiting" /\ ~committed[1]
    /\ hpc[3] = "returned" /\ HandlerRuns(2)

\* The step of a call of log leaves one more record to be delivered and
\* changes nothing else: no dispatch moves, no reply is made or committed,
\* the watchdog is neither disarmed nor rearmed.  The step that delivers a
\* record commits nothing and sets no completion signal.
C18_LogStep ==
    logs' # logs =>
        /\ UNCHANGED <<hpc, reply, replyVars, handler, wdVars, error>>
        /\ \E c \in Conn :
              /\ logs'[c] \in {logs[c] + 1, logs[c] - 1}
              /\ \A d \in Conn \ {c} : logs'[d] = logs[d]

\* With records still to be delivered or not, a running handler can log
\* again and dispatch, and a dispatch goes on once the pipeline call returns
\* and once its own signal is set.
C18_HandlerDoesNotWait ==
    /\ \A c \in Conn :
          (HandlerRuns(c) /\ logs[c] < MaxLogs) => ENABLED log(c)
    /\ \A t \in Task :
          /\ (HandlerRuns(taskConn(t)) /\ hpc[t] = "idle")
                => ENABLED handle_hook_enter(t, 1)
          /\ hpc[t] = "lifecycle" => ENABLED handle_lifecycle_returns(t)
          /\ (hpc[t] = "waiting" /\ done[t]) => ENABLED handle_hook_resume(t)

\* C18: log is fire-and-forget: it hands a record with a no-op reply to the
\* pipeline as a task of its own and returns without waiting for it, it
\* neither disarms nor rearms the watchdog, and nothing the handler does
\* waits for the record to be delivered.
C18_LogIsFireAndForget ==
    [](C18_HandlerDoesNotWait) /\ [][C18_LogStep]_vars

\* C18 witness: a record of connection 1 is still to be delivered, its idle
\* window has elapsed with the watchdog armed, and meanwhile one dispatch
\* of the connection has returned.
C18_Witness ==
    /\ logs[1] = 1 /\ hpc[1] = "returned"
    /\ expired[1] /\ blocker[1] = 0 /\ HandlerRuns(1)

\* The wake-up of a commit made on an open loop is scheduled or delivered.
C19_WakeupPendingOrDelivered ==
    \A r \in Task :
        (committed[r] /\ ~lateCommit[r] /\ ~loopClosed) => (done[r] \/ InReady(r))

\* A completion signal that is set stays set.
C19_SignalStaysSet == \A r \in Task : done[r] => done'[r]

\* A dispatch whose reply is committed while the pipeline call is still
\* running completes, unless the loop is closed first.
C19_EarlyCommitCompletes ==
    \A t \in Task :
        (hpc[t] = "lifecycle" /\ committed[t] /\ ~lateCommit[t])
            ~> (hpc[t] = "returned" \/ loopClosed)

\* C19: no wake-up is lost: wherever the handler stands when the commit is
\* made, from the loop's thread or from another, and in particular before
\* the handler waits for the completion signal, handle_hook completes if
\* the loop stays alive; the signal, once set, stays set.
C19_NoLostWakeup ==
    /\ [](C19_WakeupPendingOrDelivered)
    /\ [][C19_SignalStaysSet]_vars
    /\ C19_EarlyCommitCompletes

\* C19 witness: the reply of a dispatch was committed and its signal set
\* while the pipeline call was still running; another dispatch, committed
\* as early, has returned.
C19_Witness ==
    /\ hpc[1] = "lifecycle" /\ committed[1] /\ done[1]
    /\ hpc[3] = "returned"
    /\ ~loopClosed

\* At most one listening socket is open; while no rebuild holds the lock,
\* the reference is set iff a socket is open, and it refers to that socket.
C20_SocketState ==
    /\ Cardinality(OpenSockets) <= 1
    /\ lockHolder = 0 =>
          /\ server # 0 <=> OpenSockets # {}
          /\ server # 0 => OpenSockets = {server}

\* A rebuild that goes on to open a socket has read the enable flag as on,
\* and passes the host and port it reads then; the socket is bound to what
\* was passed; the step that ends a rebuild which opened a socket sets the
\* reference to that socket, the only one open, and the step that ends one
\* which read the flag as off leaves no socket and no reference.
C20_RebuildStep ==
    \A t \in RTask :
        /\ (rpc'[t] = "opening" /\ rpc[t] # "opening") =>
              (optServer /\ reqAddr'[t] = <<optHost, optPort>>)
        /\ (rpc'[t] = "bound" /\ rpc[t] # "bound") =>
              (sockOpen'[t] /\ sockAddr'[t] = reqAddr[t])
        /\ (rpc'[t] = "done" /\ rpc[t] # "done") =>
              IF rpc[t] = "bound"
              THEN server' = t /\ OpenSockets' = {t} /\ sockAddr'[t] = sockAddr[t]
              ELSE ~optServer /\ server' = 0 /\ OpenSockets' = {}

\* C20: in every reachable state of the Proxyserver at most one listening
\* socket is open, and while no rebuild holds the lock the server reference
\* is set iff that socket is open; a rebuild that ran with the enable flag
\* off ends with no socket and no reference, and one that ran with it on
\* ends with the socket bound to the host and port it read.
C20_AtMostOneSocket == [](C20_SocketState) /\ [][C20_RebuildStep]_vars

\* C20 witness: three rebuilds have ended, the last one's socket is the only
\* one open, and it is bound to the address read by that rebuild, which the
\* options have left since; the rebuild for that change has not run yet.
C20_Witness ==
    /\ \A t \in 1..3 : rpc[t] = "done"
    /\ rpc[4] = "created" /\ lockHolder = 0
    /\ server = 3 /\ OpenSockets = {3}
    /\ sockAddr[3] # <<optHost, optPort>>

====
